---------------------------- MODULE Spec2Model ----------------------------
(***************************************************************************)
(* A model of the QrGenerator component (src/src/components/QrGenerator.tsx)*)
(* The React state, the shared canvas, the asynchronous render started by  *)
(* the effect on every change of its dependencies, and the download action.*)
(***************************************************************************)
EXTENDS Integers, Sequences, FiniteSets, TLC

VARIABLES mode, websiteUrl, redirectUrl, size, logoRatio, margin, error,
          canvas, renders, download

vars == <<mode, websiteUrl, redirectUrl, size, logoRatio, margin, error,
          canvas, renders, download>>

params == <<mode, websiteUrl, redirectUrl, size, logoRatio, margin>>

(***************************************************************************)
(* Bounds of the model and constants of the program.                       *)
(***************************************************************************)

\* The number of renders one behaviour starts (the effect can run for ever).
MaxRenders == 3

\* min / max of the size input, and of the logo slider in hundredths.
MinSize == 300
MaxSize == 2000
MinRatio == 14
MaxRatio == 26
DefaultSize == 900
DefaultRatio == 20
DefaultMargin == 2

\* The canvas element before any script sizes it (HTML default 300 x 150).
CanvasInitWidth == 300
CanvasInitHeight == 150

Modes == {"redirect", "website", "plain"}

\* The sizes, ratios and margins the user picks in the concurrent model.
Sizes == {MinSize, DefaultSize}
Ratios == {MinRatio, DefaultRatio}
Margins == {0, DefaultMargin}

(***************************************************************************)
(* Texts.  A text is what the URL parser and the QR engine can tell apart: *)
(* surrounding white space, its scheme as typed, whether an authority      *)
(* follows, the rest (path), and its length class against the capacity of  *)
(* a version-40 symbol ("short" fits level H and M, "mid" only M, "long"   *)
(* neither).                                                               *)
(***************************************************************************)
Text(pad, scheme, host, path, len) ==
    [pad |-> pad, scheme |-> scheme, host |-> host, path |-> path, len |-> len]

DEFAULT_REDIRECT_URL == Text(FALSE, "https", TRUE, "/app-redirect", "short")
DefaultWebsiteUrl == Text(FALSE, "https", TRUE, "", "short")

\* The texts typed into the redirect input and into the website input.
RedirectTexts ==
    { DEFAULT_REDIRECT_URL,
      Text(FALSE, "HTTP", TRUE, "", "mid"),          \* "HTTP://..." of some 1500 bytes
      Text(FALSE, "ftp", TRUE, "", "short"),         \* "ftp://example.com"
      Text(FALSE, "https", FALSE, "", "short") }     \* "https://"

WebsiteTexts ==
    { DefaultWebsiteUrl,
      Text(TRUE, "https", TRUE, "", "short"),        \* " https://www.example.com "
      Text(FALSE, "https", TRUE, "", "long"),        \* "https://..." of some 3000 bytes
      Text(FALSE, "", TRUE, "", "short") }           \* "www.example.com"

\* String.prototype.trim
Trim(t) == [t EXCEPT !.pad = FALSE]

Lower(s) == CASE s = "HTTP" -> "http"
              [] s = "HTTPS" -> "https"
              [] s = "FTP" -> "ftp"
              [] OTHER -> s

SpecialSchemes == {"http", "https", "ftp"}

\* new URL(value): throws on a text with no scheme, and on a special scheme
\* with an empty host; otherwise the protocol is the lower-cased scheme with
\* a colon.  Leading and trailing white space is stripped by the parser.
URLParse(value) ==
    LET s == Lower(value.scheme) IN
    IF s = "" \/ (s \in SpecialSchemes /\ ~value.host)
    THEN [threw |-> TRUE, protocol |-> ""]
    ELSE [threw |-> FALSE, protocol |-> s \o ":"]

\* A variant that takes every text that parses, whatever its scheme.
isValidHttpUrlAnyScheme(value) == ~URLParse(value).threw

isValidHttpUrl(value) ==
    LET u == URLParse(value) IN
    IF u.threw THEN FALSE
    ELSE u.protocol = "http:" \/ u.protocol = "https:"


(***************************************************************************)
(* Values derived from the state at each React render of the component.    *)
(***************************************************************************)
\* A variant that embeds the logo in every mode.
embedLogoAlways(m) == m \in Modes

embedLogo(m) == m # "plain"

targetUrl(m, redirect, website) ==
    IF m = "redirect" THEN Trim(redirect) ELSE Trim(website)

canGenerate(m, redirect, website) == isValidHttpUrl(targetUrl(m, redirect, website))

\* The dependency list of the effect.
Deps(m, redirect, website, sz, ratio, mg) ==
    << targetUrl(m, redirect, website), sz, ratio, mg,
       canGenerate(m, redirect, website), embedLogo(m) >>

(***************************************************************************)
(* The canvas: its size and the paint operations that are still visible on *)
(* it, oldest first.  Setting the width or height resets it.               *)
(***************************************************************************)
BlankCanvas(w, h) == [width |-> w, height |-> h, ops |-> << >>]

IsOverlay(op) == op.kind \in {"rect", "logo"}

\* square a (corner ax, side al) lies within square b
Within(ax, al, bx, bl) == bx <= ax /\ ax + al <= bx + bl

Visible(cv, x, side) == side > 0 /\ x < cv.width /\ x < cv.height /\ x + side > 0

\* A variant that sizes the canvas and keeps what is painted on it.
ResizeCanvasKeepsContent(cv, sz) == [cv EXCEPT !.width = sz, !.height = sz]

\* canvas.width = size; canvas.height = size
ResizeCanvas(cv, sz) == BlankCanvas(sz, sz)

\* ctx.clearRect(0, 0, canvas.width, canvas.height)
ClearRect(cv) == [cv EXCEPT !.ops = << >>]

\* ctx.fillStyle = "#FFFFFF"; ctx.fillRect(x, y, side, side): opaque white
\* over whatever was there, so an overlay wholly under it is gone.
FillRect(cv, x, y, side) ==
    IF ~Visible(cv, x, side) THEN cv
    ELSE [cv EXCEPT !.ops =
            Append(SelectSeq(cv.ops,
                       LAMBDA op : ~(IsOverlay(op) /\ Within(op.x, op.side, x, side))),
                   [kind |-> "rect", x |-> x, y |-> y, side |-> side])]

\* ctx.drawImage(logo, x, y, side, side)
DrawImage(cv, x, y, side) ==
    IF ~Visible(cv, x, side) THEN cv
    ELSE [cv EXCEPT !.ops = Append(cv.ops,
                   [kind |-> "logo", x |-> x, y |-> y, side |-> side])]

(***************************************************************************)
(* The QR engine (the qrcode package), by its interface: it encodes the    *)
(* text at the given level and paints the symbol over the whole canvas, or *)
(* rejects a text that exceeds the capacity of the level.  The promise it  *)
(* returns is settled inside the call.                                     *)
(***************************************************************************)
Fits(len, level) ==
    \/ len = "short"
    \/ len = "mid" /\ level = "M"

QrSymbol(text, opts) ==
    [kind |-> "qr", text |-> text, level |-> opts.errorCorrectionLevel,
     margin |-> opts.margin, width |-> opts.width]

\* A variant with the two levels exchanged.
ErrorCorrectionLevelSwapped(embed) == IF embed THEN "M" ELSE "H"

ErrorCorrectionLevel(embed) == IF embed THEN "H" ELSE "M"

\* The options object of the QRCode.toCanvas call.
QrOptions(embed, mg, sz) ==
    [errorCorrectionLevel |-> ErrorCorrectionLevel(embed), margin |-> mg, width |-> sz]

QRCodeToCanvas(cv, text, opts) ==
    IF Fits(text.len, opts.errorCorrectionLevel)
    THEN [rejected |-> FALSE,
          canvas |-> [width |-> opts.width, height |-> opts.width,
                      ops |-> << QrSymbol(text, opts) >>]]
    ELSE [rejected |-> TRUE, canvas |-> cv]

(***************************************************************************)
(* The geometry of the logo square.                                        *)
(***************************************************************************)
\* Math.floor(size * logoRatio), the ratio in hundredths
LogoSize(sz, ratio) == (sz * ratio) \div 100

\* A variant that floors each half before it subtracts.
LogoCornerHalvesFloored(sz, logoSz) == sz \div 2 - logoSz \div 2

\* Math.floor(size / 2 - logoSize / 2)
LogoCorner(sz, logoSz) == (sz - logoSz) \div 2

\* A variant that draws the logo first and the white square over it.
ComposeLogoSquareLast(cv, sz, ratio) ==
    LET logoSz == (sz * ratio) \div 100
        x == (sz - logoSz) \div 2
    IN FillRect(DrawImage(cv, x, x, logoSz), x, x, logoSz)

\* Lines 84-93: the white square and the logo over it.
ComposeLogo(cv, sz, ratio) ==
    LET logoSz == LogoSize(sz, ratio)
        x == LogoCorner(sz, logoSz)
        y == LogoCorner(sz, logoSz)
    IN DrawImage(FillRect(cv, x, y, logoSz), x, y, logoSz)

(***************************************************************************)
(* Error messages.                                                         *)
(***************************************************************************)
Null == "null"
ValidationMessage == "Please enter a valid http/https URL."
EncodingMessage == "The amount of data is too big to be stored in a QR Code"
FallbackMessage == "Failed to generate QR."

\* err instanceof Error ? err.message : "Failed to generate QR."
CatchMessage(err) == IF err.isError THEN err.message ELSE FallbackMessage

EncodingError == [isError |-> TRUE, message |-> EncodingMessage]
\* img.onerror rejects with the error event, which is no Error
LogoErrorEvent == [isError |-> FALSE, message |-> ""]

(***************************************************************************)
(* One run of the effect.  A render record is the closure of run(): the    *)
(* values it captured, where it is suspended (pc), and what it has done:    *)
(* the statements it executed (steps), its calls of the QR engine (calls), *)
(* how it ended (outcome), and whether every earlier render had ended when *)
(* it started (alone).                                                     *)
(***************************************************************************)
Render(d, pc, rejected, steps, calls, outcome) ==
    [targetUrl |-> d[1], size |-> d[2], logoRatio |-> d[3], margin |-> d[4],
     canGenerate |-> d[5], embedLogo |-> d[6],
     pc |-> pc, rejected |-> rejected, steps |-> steps, calls |-> calls,
     outcome |-> outcome, alone |-> TRUE]

\* Lines 54-78, up to the first await: what run() does before it suspends,
\* from the canvas cv and the captured dependencies d.
Run(cv, d) ==
    IF ~d[5]
    THEN [canvas |-> ClearRect(cv),
          error |-> ValidationMessage,
          render |-> Render(d, "done", FALSE,
                            <<"setErrorNull", "clearRect", "setError">>, << >>,
                            "invalid")]
    ELSE LET opts == QrOptions(d[6], d[4], d[2])
             qr == QRCodeToCanvas(ResizeCanvas(cv, d[2]), d[1], opts)
         IN [canvas |-> qr.canvas,
             error |-> Null,
             render |-> Render(d, "awaitQr", qr.rejected,
                               <<"setErrorNull", "resize", "toCanvas">>, <<opts>>,
                               "pending")]

\* A continuation after `await QRCode.toCanvas` is a microtask: it runs
\* before the next event (input, image load, click) is dispatched.
NoMicrotask == \A i \in 1..Len(renders) : renders[i].pc # "awaitQr"

\* A React commit of new state: the effect runs when a dependency changed.
Commit(m, redirect, website, sz, ratio, mg) ==
    LET old == Deps(mode, redirectUrl, websiteUrl, size, logoRatio, margin)
        new == Deps(m, redirect, website, sz, ratio, mg)
    IN /\ NoMicrotask
       /\ <<m, redirect, website, sz, ratio, mg>> # params
       /\ mode' = m /\ redirectUrl' = redirect /\ websiteUrl' = website
       /\ size' = sz /\ logoRatio' = ratio /\ margin' = mg
       /\ UNCHANGED download
       /\ IF new = old
          THEN UNCHANGED <<error, canvas, renders>>
          ELSE /\ Len(renders) < MaxRenders
               /\ LET r == Run(canvas, new)
                  IN /\ canvas' = r.canvas
                     /\ error' = r.error
                     /\ renders' = Append(renders,
                            [r.render EXCEPT !.alone =
                                \A j \in 1..Len(renders) : renders[j].pc = "done"])

SetMode(m) == Commit(m, redirectUrl, websiteUrl, size, logoRatio, margin)

\* The redirect input is shown in mode "redirect", the website input otherwise.
SetRedirectUrl(t) ==
    /\ mode = "redirect"
    /\ Commit(mode, t, websiteUrl, size, logoRatio, margin)

SetWebsiteUrl(t) ==
    /\ mode # "redirect"
    /\ Commit(mode, redirectUrl, t, size, logoRatio, margin)

SetSize(sz) == Commit(mode, redirectUrl, websiteUrl, sz, logoRatio, margin)

SetMargin(mg) == Commit(mode, redirectUrl, websiteUrl, size, logoRatio, mg)

\* The slider is shown only while a logo is embedded.
SetLogoRatio(ratio) ==
    /\ embedLogo(mode)
    /\ Commit(mode, redirectUrl, websiteUrl, size, ratio, margin)

\* Lines 79-98 after `await QRCode.toCanvas`: the catch on a rejection, the
\* start of the logo load in a logo mode, the end of run() otherwise.
QrSettled(i) ==
    LET r == renders[i] IN
    /\ r.pc = "awaitQr"
    /\ UNCHANGED <<params, canvas, download>>
    /\ IF r.rejected
       THEN /\ error' = CatchMessage(EncodingError)
            /\ renders' = [renders EXCEPT ![i].pc = "done",
                              ![i].steps = Append(@, "setError"),
                              ![i].outcome = "encodingError"]
       ELSE IF r.embedLogo
       THEN /\ error' = error
            /\ renders' = [renders EXCEPT ![i].pc = "awaitLogo",
                              ![i].steps = Append(@, "loadImage")]
       ELSE /\ error' = error
            /\ renders' = [renders EXCEPT ![i].pc = "done", ![i].outcome = "ok"]

\* img.onload: lines 84-93 with the values the render captured.
LogoLoaded(i) ==
    LET r == renders[i] IN
    /\ NoMicrotask
    /\ r.pc = "awaitLogo"
    /\ canvas' = ComposeLogo(canvas, r.size, r.logoRatio)
    /\ renders' = [renders EXCEPT ![i].pc = "done",
                      ![i].steps = @ \o <<"fillRect", "drawImage">>,
                      ![i].outcome = "ok"]
    /\ UNCHANGED <<params, error, download>>

\* img.onerror: the catch of lines 95-98.
LogoFailed(i) ==
    LET r == renders[i] IN
    /\ NoMicrotask
    /\ r.pc = "awaitLogo"
    /\ error' = CatchMessage(LogoErrorEvent)
    /\ renders' = [renders EXCEPT ![i].pc = "done",
                      ![i].steps = Append(@, "setError"),
                      ![i].outcome = "logoError"]
    /\ UNCHANGED <<params, canvas, download>>

FileName(m) ==
    IF m = "redirect" THEN "qr-redirect.png"
    ELSE IF m = "website" THEN "qr-website.png"
    ELSE "qr-plain.png"

\* The button is disabled unless canGenerate; downloadPng exports the canvas
\* as it is.  The export is kept with the number of the latest render and
\* how far that render had come.
DownloadPng ==
    /\ NoMicrotask
    /\ canGenerate(mode, redirectUrl, websiteUrl)
    /\ download' = << [image |-> canvas, fileName |-> FileName(mode),
                       version |-> Len(renders),
                       outcome |-> renders[Len(renders)].outcome] >>
    /\ download' # download
    /\ UNCHANGED <<params, error, canvas, renders>>

(***************************************************************************)
(* The component after it is mounted: the default state, and the effect    *)
(* has run once.                                                           *)
(***************************************************************************)
Mounted(m, redirect, website, sz, ratio, mg) ==
    LET r == Run(BlankCanvas(CanvasInitWidth, CanvasInitHeight),
                 Deps(m, redirect, website, sz, ratio, mg))
    IN /\ mode = m /\ redirectUrl = redirect /\ websiteUrl = website
       /\ size = sz /\ logoRatio = ratio /\ margin = mg
       /\ canvas = r.canvas
       /\ error = r.error
       /\ renders = << r.render >>
       /\ download = << >>

Init ==
    Mounted("redirect", DEFAULT_REDIRECT_URL, DefaultWebsiteUrl,
            DefaultSize, DefaultRatio, DefaultMargin)

Next ==
    \/ \E m \in Modes : SetMode(m)
    \/ \E t \in RedirectTexts : SetRedirectUrl(t)
    \/ \E t \in WebsiteTexts : SetWebsiteUrl(t)
    \/ \E sz \in Sizes : SetSize(sz)
    \/ \E mg \in Margins : SetMargin(mg)
    \/ \E ratio \in Ratios : SetLogoRatio(ratio)
    \/ \E i \in 1..Len(renders) : QrSettled(i)
    \/ \E i \in 1..Len(renders) : LogoLoaded(i)
    \/ \E i \in 1..Len(renders) : LogoFailed(i)
    \/ DownloadPng

Spec == Init /\ [][Next]_vars

(***************************************************************************)
(* A single render of every size and logo ratio the inputs allow: the      *)
(* component as the user left it, and the render of that state running     *)
(* with no other render beside it.                                         *)
(***************************************************************************)
GeomInit ==
    \E sz \in MinSize..MaxSize, ratio \in MinRatio..MaxRatio :
        Mounted("redirect", DEFAULT_REDIRECT_URL, DefaultWebsiteUrl,
                sz, ratio, DefaultMargin)

GeomNext ==
    \/ \E i \in 1..Len(renders) : QrSettled(i)
    \/ \E i \in 1..Len(renders) : LogoLoaded(i)
    \/ \E i \in 1..Len(renders) : LogoFailed(i)

GeomSpec == GeomInit /\ [][GeomNext]_vars

(***************************************************************************)
(* Vocabulary of the properties.                                           *)
(***************************************************************************)
Latest == renders[Len(renders)]

AllDone == \A i \in 1..Len(renders) : renders[i].pc = "done"

Failures == {"invalid", "encodingError", "logoError"}

\* What can be seen on a canvas: nothing, or its size and what is painted.
Pixels(cv) == IF cv.ops = << >> THEN << >> ELSE <<cv.width, cv.height, cv.ops>>

\* The canvas and the error after one render of the request of r that ran
\* by itself from a fresh canvas and ended as r ended.
SoloCanvas(r) ==
    LET d == <<r.targetUrl, r.size, r.logoRatio, r.margin, r.canGenerate, r.embedLogo>>
        started == Run(BlankCanvas(CanvasInitWidth, CanvasInitHeight), d).canvas
    IN IF r.outcome = "ok" /\ r.embedLogo
       THEN ComposeLogo(started, r.size, r.logoRatio)
       ELSE started

SoloError(r) ==
    CASE r.outcome = "invalid" -> ValidationMessage
      [] r.outcome = "encodingError" -> EncodingMessage
      [] r.outcome = "logoError" -> FallbackMessage
      [] OTHER -> Null

\* The step starts a render (the effect ran).
Started == Len(renders') = Len(renders) + 1

\* Render i ends in this step, and ends well.
Completes(i) ==
    /\ i <= Len(renders)
    /\ renders[i].pc # "done"
    /\ renders'[i].pc = "done"
    /\ renders'[i].outcome = "ok"

\* The text is an absolute URL with scheme http or https.
AbsoluteHttp(t) == t.host /\ t.scheme \in {"http", "https", "HTTP", "HTTPS"}

LogoSteps == {"loadImage", "fillRect", "drawImage"}

StepSet(r) == {r.steps[k] : k \in 1..Len(r.steps)}

(***************************************************************************)
(* C1.  Last request wins: once every render has ended, the canvas shows   *)
(* exactly what one render of the latest request by itself produces (no    *)
(* superseded render has written over the newer one).                      *)
(***************************************************************************)
C1_LastRequestWins ==
    AllDone => Pixels(canvas) = Pixels(SoloCanvas(Latest))

(***************************************************************************)
(* C2.  A target that is no absolute http/https URL: isValidHttpUrl is     *)
(* false for it, and the render started for it calls no QR engine, loads   *)
(* and draws no logo, clears the canvas, sets the validation error and     *)
(* ends there, for good.                                                   *)
(***************************************************************************)
C2_InvalidTargetRendersNothing ==
    [][ /\ Started /\ ~AbsoluteHttp(renders'[Len(renders')].targetUrl) =>
            LET r == renders'[Len(renders')] IN
            /\ ~isValidHttpUrl(r.targetUrl)
            /\ ~r.canGenerate
            /\ r.calls = << >>
            /\ r.steps = <<"setErrorNull", "clearRect", "setError">>
            /\ r.pc = "done" /\ r.outcome = "invalid"
            /\ canvas'.ops = << >>
            /\ error' = ValidationMessage
        /\ \A i \in 1..Len(renders) :
            ~AbsoluteHttp(renders[i].targetUrl) => renders'[i] = renders[i]
      ]_vars

C2_Witness ==
    /\ Latest.targetUrl.scheme = "ftp"
    /\ Latest.outcome = "invalid"
    /\ Len(renders) > 1
    /\ renders[Len(renders) - 1].outcome = "ok"
    /\ canvas.ops = << >>
    /\ error = ValidationMessage

(***************************************************************************)
(* C3.  No partial output on error: no render that failed after validation *)
(* leaves on the canvas the QR symbol of its request without the logo.     *)
(***************************************************************************)
HoldsQrWithoutLogo(cv, r) ==
    /\ r.embedLogo
    /\ cv.ops = << QrSymbol(r.targetUrl, QrOptions(r.embedLogo, r.margin, r.size)) >>

C3_NoPartialOutput ==
    \A i \in 1..Len(renders) :
        renders[i].outcome \in {"encodingError", "logoError"} =>
            ~HoldsQrWithoutLogo(canvas, renders[i])

(***************************************************************************)
(* C4.  A render of a valid target in mode "plain" embeds no logo: it      *)
(* never waits for the logo, never paints the white square or the logo,    *)
(* calls the QR engine once, and when it ends the canvas holds the QR      *)
(* symbol of its request and nothing else.                                 *)
(***************************************************************************)
C4_PlainRenderIsQrOnly ==
    [][ /\ Started /\ mode' = "plain" => ~renders'[Len(renders')].embedLogo
        /\ \A i \in 1..Len(renders') :
            LET r == renders'[i] IN
            r.canGenerate /\ ~r.embedLogo =>
                /\ r.pc # "awaitLogo"
                /\ StepSet(r) \cap LogoSteps = {}
                /\ Len(r.calls) = 1
                /\ Completes(i) =>
                     canvas' = [width |-> r.size, height |-> r.size,
                                ops |-> << [kind |-> "qr", text |-> r.targetUrl,
                                            level |-> "M", margin |-> r.margin,
                                            width |-> r.size] >>]
      ]_vars

C4_Witness ==
    /\ mode = "plain"
    /\ Latest.canGenerate /\ ~Latest.embedLogo
    /\ Latest.outcome = "ok"
    /\ Len(canvas.ops) = 1 /\ canvas.ops[1].kind = "qr"

(***************************************************************************)
(* C5.  A logo render that ends well has run QR encode, logo load, white   *)
(* square, logo draw in that order, and as it ends the square of side      *)
(* logoSize at (x, y) shows the logo over the white square and nothing     *)
(* painted later (wherever that square lies on the canvas at all).         *)
(***************************************************************************)
C5_LogoOverWhiteSquare ==
    [][ \A i \in 1..Len(renders) :
          Completes(i) /\ renders[i].embedLogo =>
            LET r == renders'[i]
                logoSz == (r.size * r.logoRatio) \div 100
                x == (r.size - logoSz) \div 2
                n == Len(canvas'.ops)
            IN /\ r.steps = <<"setErrorNull", "resize", "toCanvas", "loadImage",
                              "fillRect", "drawImage">>
               /\ Visible(canvas', x, logoSz) =>
                    /\ n >= 2
                    /\ canvas'.ops[n - 1] =
                         [kind |-> "rect", x |-> x, y |-> x, side |-> logoSz]
                    /\ canvas'.ops[n] =
                         [kind |-> "logo", x |-> x, y |-> x, side |-> logoSz]
      ]_vars

C5_Witness ==
    /\ Latest.embedLogo /\ Latest.outcome = "ok"
    /\ Len(canvas.ops) = 3
    /\ canvas.ops[1].kind = "qr" /\ canvas.ops[1].text = Latest.targetUrl
    /\ canvas.ops[2].kind = "rect" /\ canvas.ops[3].kind = "logo"

(***************************************************************************)
(* C6.  The call of the QR engine made for the state shown uses level H    *)
(* exactly in the modes "redirect" and "website" and level M exactly in    *)
(* mode "plain", and passes the margin and the size of the state as they   *)
(* are; a render calls the engine at most once.                            *)
(***************************************************************************)
C6_LevelFollowsLogo ==
    /\ \A i \in 1..Len(renders) : Len(renders[i].calls) <= 1
    /\ Latest.calls # << >> =>
         LET c == Latest.calls[1] IN
         /\ (c.errorCorrectionLevel = "H") <=> (mode \in {"redirect", "website"})
         /\ (c.errorCorrectionLevel = "M") <=> (mode = "plain")
         /\ c.margin = margin
         /\ c.width = size

C6_Witness ==
    /\ Len(renders) = 3
    /\ renders[1].calls # << >> /\ renders[1].calls[1].errorCorrectionLevel = "H"
    /\ renders[2].calls # << >> /\ renders[2].calls[1].errorCorrectionLevel = "M"
    /\ renders[3].calls # << >> /\ renders[3].calls[1].margin = 0
    /\ renders[3].calls[1].width = DefaultSize
    /\ mode = "plain" /\ margin = 0 /\ size = DefaultSize

(***************************************************************************)
(* C7.  For every size in [300, 2000] and every ratio in [0.14, 0.26] the  *)
(* square painted has side floor(size * ratio), lies within the image and  *)
(* is centred, the odd pixel left over lying to the right and below.       *)
(***************************************************************************)
C7_LogoSquareCentred ==
    \A k \in 1..Len(canvas.ops) :
        LET op == canvas.ops[k] IN
        IsOverlay(op) =>
            /\ op.side * 100 <= size * logoRatio
            /\ size * logoRatio < (op.side + 1) * 100
            /\ op.x = op.y
            /\ 0 <= op.x
            /\ op.x + op.side <= size
            /\ size - op.side - 2 * op.x \in {0, 1}

C7_Witness ==
    /\ size = MaxSize /\ logoRatio = MaxRatio
    /\ Len(canvas.ops) = 3
    /\ canvas.ops[3] = [kind |-> "logo", x |-> 740, y |-> 740, side |-> 520]

(***************************************************************************)
(* C8.  Idempotence: a render that runs with no other render in flight     *)
(* leaves the canvas and the error that its request and the fate of its    *)
(* logo load determine, the same from whatever the canvas and the error    *)
(* were before; so two such renders of one request leave the same.         *)
(***************************************************************************)
C8_Idempotent ==
    AllDone /\ Latest.alone =>
        /\ Pixels(canvas) = Pixels(SoloCanvas(Latest))
        /\ error = SoloError(Latest)

SameRequest(r, q) ==
    /\ r.targetUrl = q.targetUrl /\ r.size = q.size /\ r.logoRatio = q.logoRatio
    /\ r.margin = q.margin /\ r.embedLogo = q.embedLogo /\ r.outcome = q.outcome

C8_Witness ==
    /\ AllDone /\ Len(renders) = 3
    /\ renders[2].alone /\ renders[3].alone
    /\ SameRequest(renders[1], renders[3])
    /\ ~SameRequest(renders[1], renders[2])
    /\ renders[2].outcome = "ok"

(***************************************************************************)
(* C9.  Every export is the completed image of the request that was        *)
(* current when the button was pressed.                                    *)
(***************************************************************************)
C9_DownloadIsCompleteImage ==
    \A k \in 1..Len(download) :
        /\ download[k].outcome = "ok"
        /\ Pixels(download[k].image) = Pixels(SoloCanvas(renders[download[k].version]))

(***************************************************************************)
(* C10.  Once every render has ended, an error is shown exactly when the   *)
(* render of the latest request failed.                                    *)
(***************************************************************************)
C10_ErrorReflectsLatest ==
    AllDone => ((error # Null) <=> (Latest.outcome \in Failures))

=============================================================================
